---- MODULE Spec2Model ----
(***************************************************************************)
(* HTMLRunner: the preview execution pipeline.                             *)
(*                                                                         *)
(* The host page is single-threaded: runCode() runs to completion, and the *)
(* other handlers (editor changes, the preview's load event, the window    *)
(* message listener, the banner timer) only run while no run is active.    *)
(* runCode() is split at the points the design names (Validating,         *)
(* Building&Loading, Failed); while pc # "Idle" the only enabled steps are *)
(* the next steps of the run.                                              *)
(*                                                                         *)
(* Texts are sequences of tokens (strings).  A blob URL is identified by   *)
(* the number of the run that created it.                                  *)
(***************************************************************************)
EXTENDS Integers, Sequences, FiniteSets, TLC

VARIABLES
    editors,        \* the three editor buffers: [html, css, js]
    pc,             \* position of runCode(): Idle, Validating, BuildingLoading, Failed
    bundle,         \* runCode's locals html, css, js (NoBundle outside a run)
    loading,        \* loadingEl has class "active"
    errorVisible,   \* errorEl.style.display = "block"
    console,        \* children of consoleOutput, oldest first
    msgQueue,       \* messages posted to the host window, not yet dispatched
    src,            \* preview.src (0: never assigned)
    navigating,     \* URL the preview is fetching (0: none)
    loadEvents,     \* URLs whose load event is queued, not yet dispatched
    displayed,      \* URL of the document the preview shows (0: none)
    listeners,      \* URLs captured by the registered "load" listeners
    created,        \* URLs returned by URL.createObjectURL
    revokeCount,    \* number of URL.revokeObjectURL calls per URL
    loaded,         \* URLs whose load event has been dispatched
    currentOutput,  \* ui.ts currentOutput
    activeView,     \* the output elements carrying class "active"
    state,          \* state.ts state object
    storage,        \* localStorage item "htmlRunnerState" (NoItem if absent)
    runs,           \* number of runCode() calls so far
    cleared,        \* number of entries the latest clearConsole removed
    ignored,        \* the message listener has returned without appending
    outcome,        \* how the latest runCode() call ended (none: not yet)
    saveFailed,     \* the latest handler's saveState caught a storage exception
    fmt,            \* position and locals of formatCode()
    activeFilters,  \* console.ts activeFilters: the levels shown
    sandbox,        \* what the latest handler of the shim did in the preview
    autoRun,        \* editor.ts autoRun / console.ts isAutoRun
    timers,         \* the number of pending setTimeout(runCode, 1000) timers
    hostThrew,      \* an exception left a handler of the host uncaught
    currentTab,     \* ui.ts currentTab
    shownEditors,   \* the editor containers with display "block"
    activeTabs,     \* the editor tabs carrying class "active"
    activeOutputTabs, \* the output tabs carrying class "active"
    debounced       \* one function returned by debounce(f, wait) and its timers

vars == <<editors, pc, bundle, loading, errorVisible, console,
          msgQueue, src, navigating, loadEvents, displayed, listeners,
          created, revokeCount, loaded, currentOutput, activeView, state,
          storage, runs, cleared, ignored, outcome, saveFailed, fmt,
          activeFilters, sandbox, autoRun, timers, hostThrew,
          currentTab, shownEditors, activeTabs, activeOutputTabs, debounced>>

----------------------------------------------------------------------------
(* Bounds *)

MaxRuns == 2
MaxEntries == 2
MaxObjects == 6

----------------------------------------------------------------------------
(* Texts *)

WhiteSpace == {" ", "\n"}

\* what the user types into the three editors
HtmlTexts == { <<"<p>", "hi", "</p>">> }

CssTexts == { <<"p{color:red}">> }

JsTexts == { <<" ">>, <<"f", "(", ")">>, <<"function", "(">> }

\* bundles the builder is applied to: fragments, full documents with and
\* without head content, markers in either case and not at the start of
\* the text, near misses, and blank and non-blank CSS and JS
BuilderHtml ==
    { <<>>,
      <<"<p>", "hi", "</p>">>,
      <<"<p>", "html", "</p>">>,
      <<"<htmlx>", "hi">>,
      <<"<html>", "<head>", "<title>", "</head>", "<body>", "<p>", "</body>", "</html>">>,
      <<"<!--c-->", "<HTML lang>", "<head>", "<script>", "lib", "</script>", "</head>",
        "<body>", "<p>", "</body>", "</html>">>,
      <<"<html>", "<body>", "<p>", "</body>", "</html>">>,
      <<"<!DOCTYPE html>", "<p>", "hi", "</p>">>,
      <<"<p>", "hi", "</p>", "<!doctype html>">> }

BuilderCss == { <<>>, <<" ">>, <<"p{color:red}">> }

BuilderJs == { <<>>, <<"\n">>, <<"console.log", "(", "'x'", ")">> }

NoBundle == [none |-> TRUE]

\* formatCode has not been called
NoFormat == [step |-> "none", input |-> <<>>, out |-> [html |-> <<>>, css |-> <<>>, js |-> <<>>]]
NoItem == [absent |-> TRUE]

\* the most calls of the debounced function
MaxCalls == 4

\* the arguments of a call
CallArgs == {"a", "b", "c"}

\* console.ts:604: let timeout, undefined (0) when debounce returns; the
\* timers set and not yet expired or cleared; the invocations of func.
\* bursts records the arguments of the last call of each burst.
NewDebounced == [timeout |-> 0, timers |-> {}, invoked |-> <<>>, calls |-> 0,
                 bursts |-> <<>>]

Levels == {"log", "error", "warn", "info"}

\* the console calls the sandboxed documents make
EmitLevels == {"log", "error"}

\* String.prototype.trim
RECURSIVE TrimLeft(_)
TrimLeft(s) ==
    IF s = <<>> THEN <<>>
    ELSE IF Head(s) \in WhiteSpace THEN TrimLeft(Tail(s)) ELSE s

RECURSIVE TrimRight(_)
TrimRight(s) ==
    IF s = <<>> THEN <<>>
    ELSE IF s[Len(s)] \in WhiteSpace THEN TrimRight(SubSeq(s, 1, Len(s) - 1)) ELSE s

Trim(s) == TrimRight(TrimLeft(s))

\* new Function(js): the engine's parse of js as a function body.  The
\* parse succeeds when every "(" is closed and no ")" is unopened.
RECURSIVE ParenDepth(_, _)
ParenDepth(s, d) ==
    IF d < 0 THEN -1
    ELSE IF s = <<>> THEN d
    ELSE IF Head(s) = "(" THEN ParenDepth(Tail(s), d + 1)
    ELSE IF Head(s) = ")" THEN ParenDepth(Tail(s), d - 1)
    ELSE ParenDepth(Tail(s), d)

NewFunctionThrows(js) == ParenDepth(js, 0) # 0

\* runner.ts:20-27: the pre-parse is skipped for a blank buffer
SyntaxCheckFails(js) == Trim(js) # <<>> /\ NewFunctionThrows(js)

----------------------------------------------------------------------------
(* Sandbox Document Builder, runner.ts:29-69 *)

consoleInterceptor == "shim"

\* tokens that are the start tag of the html element
HtmlOpeningTags == {"<html>", "<HTML lang>"}

\* tokens that are a doctype declaration
DoctypeDeclarations == {"<!DOCTYPE html>", "<!doctype html>"}

\* the characters of a token, in pieces that no pattern of runner.ts:30
\* splits
Lexemes(tok) ==
    CASE tok = "<html>" -> <<"<", "html", ">">>
      [] tok = "<HTML lang>" -> <<"<", "HTML", " ", "lang", ">">>
      [] tok = "<htmlx>" -> <<"<", "htmlx", ">">>
      [] tok = "<!DOCTYPE html>" -> <<"<", "!DOCTYPE", " ", "html", ">">>
      [] tok = "<!doctype html>" -> <<"<", "!doctype", " ", "html", ">">>
      [] OTHER -> <<tok>>

\* the text of a token sequence, piece by piece
RECURSIVE Flatten(_)
Flatten(s) == IF s = <<>> THEN <<>> ELSE Lexemes(Head(s)) \o Flatten(Tail(s))

\* the i flag of the pattern: letters compare in lower case
Lower(x) ==
    CASE x = "HTML" -> "html"
      [] x = "!DOCTYPE" -> "!doctype"
      [] OTHER -> x

\* the pattern changed to lack its i flag
LowerIfCaseless_caseSensitive(x) == x

\* runner.ts:30: the pattern carries the i flag
LowerIfCaseless(x) == Lower(x)

\* /<html[\s>]/ matches the text t at position i
MatchesHtmlTag(t, i) ==
    /\ i + 2 <= Len(t)
    /\ t[i] = "<"
    /\ LowerIfCaseless(t[i + 1]) = "html"
    /\ t[i + 2] \in WhiteSpace \cup {">"}

\* /<!doctype html/ matches the text t at position i
MatchesDoctype(t, i) ==
    /\ i + 3 <= Len(t)
    /\ t[i] = "<"
    /\ LowerIfCaseless(t[i + 1]) = "!doctype"
    /\ t[i + 2] = " "
    /\ LowerIfCaseless(t[i + 3]) = "html"

\* runner.ts:30: /<html[\s>]|<!doctype html/i.test(html); test() searches
\* the whole text
isFullHtml(html) ==
    LET t == Flatten(html)
    IN \E i \in 1..Len(t) : MatchesHtmlTag(t, i) \/ MatchesDoctype(t, i)

\* position of the first token t in s, 0 if absent
IndexOf(s, t) ==
    IF \E i \in 1..Len(s) : s[i] = t
    THEN CHOOSE i \in 1..Len(s) : s[i] = t /\ \A j \in 1..(i - 1) : s[j] # t
    ELSE 0

\* tokens strictly between the first open and the first close tag
Between(s, open, close) ==
    LET a == IndexOf(s, open)
        b == IndexOf(s, close)
    IN IF a = 0 \/ b = 0 \/ b < a THEN <<>> ELSE SubSeq(s, a + 1, b - 1)

\* tokens the HTML parser turns into the document's structure rather than
\* into children of head or body
Structural ==
    HtmlOpeningTags \cup DoctypeDeclarations
    \cup {"<head>", "</head>", "<body>", "</body>", "</html>"}

IsContent(tok) == tok \notin Structural

\* runner.ts:32: DOMParser.parseFromString(html, "text/html").  The
\* children of head are what the text puts between its head tags; the
\* children of body are what it puts between its body tags or, without
\* body tags, all content after the head.
ParsedHead(html) == Between(html, "<head>", "</head>")

ParsedBody(html) ==
    IF IndexOf(html, "<body>") # 0
    THEN Between(html, "<body>", "</body>")
    ELSE SelectSeq(SubSeq(html, IndexOf(html, "</head>") + 1, Len(html)), IsContent)

\* the start tag of documentElement as outerHTML writes it: lower-case
\* name, attributes kept
SerializedHtmlTag(html) ==
    IF \E i \in 1..Len(html) : html[i] = "<HTML lang>" THEN "<html lang>" ELSE "<html>"

\* runner.ts:38-41: doc.head.appendChild(script)
HeadWithShim(head) == head \o <<"<script>", consoleInterceptor, "</script>">>

\* runner.ts:31-52; the doctype is no part of documentElement.outerHTML
BuildFull(html, css, js) ==
    <<SerializedHtmlTag(html), "<head>">>
    \o HeadWithShim(ParsedHead(html))
    \o (IF Trim(css) # <<>> THEN <<"<style>">> \o css \o <<"</style>">> ELSE <<>>)
    \o <<"</head>", "<body>">>
    \o ParsedBody(html)
    \o (IF Trim(js) # <<>> THEN <<"<script>">> \o js \o <<"</script>">> ELSE <<>>)
    \o <<"</body>", "</html>">>

\* runner.ts:55: the first string of the fragment template
FragmentPrologue == "<!DOCTYPE html><html><head><meta charset=\"UTF-8\">"

\* runner.ts:53-69: the strings of the template are joined as they are
BuildFragment(html, css, js) ==
    <<FragmentPrologue, "<style>">>
    \o css
    \o <<"</style>", "<script>", consoleInterceptor, "</script>", "</head><body>">>
    \o html
    \o <<"</body>", "<script>">>
    \o js
    \o <<"</script></html>">>

Build(b) ==
    IF isFullHtml(b.html) THEN BuildFull(b.html, b.css, b.js)
    ELSE BuildFragment(b.html, b.css, b.js)

----------------------------------------------------------------------------
(* Console view and loading indicator *)

\* ui.ts:21-23
showLoading == TRUE

\* ui.ts:25-27
hideLoading == FALSE

\* clearConsole changed to leave the view as it is
clearConsole_keeps(view) == view

\* console.ts:104-106: consoleOutput.innerHTML = ''
clearConsole(view) == <<>>

\* logConsoleError changed to tag its entry console-log
logConsoleError_asLog(view, message) ==
    Append(view, [level |-> "log", text |-> message, origin |-> 0, epoch |-> runs,
                  filtered |-> FALSE])

\* console.ts:108-129; origin 0: the entry was made by the host itself
logConsoleError(view, message) ==
    Append(view, [level |-> "error", text |-> message, origin |-> 0, epoch |-> runs,
                  filtered |-> FALSE])

\* runner.ts:24
SyntaxErrorMessage == <<"SyntaxError", ": ", "Unexpected token">>

----------------------------------------------------------------------------
(* Object rendering, console.ts:359-398 *)

\* An argument of a console call, as the structured clone delivers it: a
\* heap of objects and the value rendered.  A value is 0, the primitive
\* 'x', or the number of an object of the heap; heap[i] lists the values of
\* object i's properties in key order.
PrimitiveItem == [heap |-> <<>>, root |-> 0]

\* the value that is an Error object with a stack
ErrorObject == -1

\* an Error object as an argument
ErrorItem == [heap |-> <<>>, root |-> ErrorObject]

\* the object { stack: ... } the error handlers of the shim pass second
StackItem(hasStack) == [heap |-> <<<<0>>>>, root |-> 1, stack |-> hasStack]

\* console.ts:363: the deepest level rendered as a node
MaxLevel == 3

\* values a property of object i holds in the sample heaps: the primitive,
\* the first object, the object itself or the next one
FieldValues(i) == {0} \cup ({1, i, i + 1} \cap (1..MaxObjects))

\* the root object has up to two properties, the others up to one
FieldLists(i) ==
    {<<>>} \cup {<<a>> : a \in FieldValues(i)}
    \cup (IF i = 1 THEN {<<a, b>> : a \in FieldValues(i), b \in FieldValues(i)} ELSE {})

RECURSIVE HeapsOf(_)
HeapsOf(n) ==
    IF n = 0 THEN {<<>>}
    ELSE {Append(h, f) : h \in HeapsOf(n - 1), f \in FieldLists(n)}

RECURSIVE renderObject(_, _, _, _)
RECURSIVE renderEntries(_, _, _, _)

\* the guard of the depth changed to level > 4
DepthGuard_off(level) == level > MaxLevel + 1

\* console.ts:363: if (level > 3)
DepthGuard(level) == level > MaxLevel

\* the cycle guard changed to precede nothing: the visited set is ignored
CycleGuard_off(obj, visited) == FALSE

\* console.ts:362: if (visited.has(obj))
CycleGuard(obj, visited) == obj \in visited

\* console.ts:359-398: the text of the rendered node in document order and
\* the visited set after the call (the WeakSet is shared by the whole
\* render and nothing is removed from it)
renderObject(heap, obj, level, visited) ==
    IF obj = 0 THEN [out |-> <<"x">>, visited |-> visited]
    ELSE IF CycleGuard(obj, visited) THEN [out |-> <<"[Circular]">>, visited |-> visited]
    ELSE IF DepthGuard(level) THEN [out |-> <<"[...]">>, visited |-> visited]
    ELSE IF obj = ErrorObject
         THEN [out |-> <<"name: message", "stack lines">>, visited |-> visited \cup {obj}]
    ELSE LET r == renderEntries(heap, heap[obj], level, visited \cup {obj})
         IN [out |-> <<"{...}", "<div>">> \o r.out \o <<"</div>">>, visited |-> r.visited]

\* console.ts:384-389: Object.entries(obj).forEach, each value rendered at
\* level + 1 with the same visited set
renderEntries(heap, values, level, visited) ==
    IF values = <<>> THEN [out |-> <<>>, visited |-> visited]
    ELSE LET r == renderObject(heap, Head(values), level + 1, visited)
             rest == renderEntries(heap, Tail(values), level, r.visited)
         IN [out |-> <<"key:">> \o r.out \o rest.out, visited |-> rest.visited]

\* console.ts:314-323: the items of data are rendered one by one, each with
\* a new visited set, separated by blanks
RECURSIVE RenderData(_)
RenderData(data) ==
    IF data = <<>> THEN <<>>
    ELSE renderObject(Head(data).heap, Head(data).root, 0, {}).out
         \o (IF Tail(data) = <<>> THEN <<>> ELSE <<" ">> \o RenderData(Tail(data)))

\* console.ts:323: event.data.data[1]?.stack
HasStack(data) ==
    /\ Len(data) >= 2
    /\ "stack" \in DOMAIN data[2]
    /\ data[2].stack

\* console.ts:312-329: the message span: the rendered items and, if the
\* second item has a stack, the stack
EntryText(data) == RenderData(data) \o (IF HasStack(data) THEN <<"stack">> ELSE <<>>)

----------------------------------------------------------------------------
(* The message listener *)

\* a message of type "console" posted without the field data
NoDataMessage(doc) == [type |-> "console", level |-> "log", origin |-> doc]

\* the payloads postMessage can carry that are not an object: null and a
\* string; they are records without the fields of a message
NullPayload(doc) == [payload |-> "null", origin |-> doc]
StringPayload(doc) == [payload |-> "string", origin |-> doc]

\* console.ts:302: event.data.type, undefined on a string
MessageType(m) == IF "type" \in DOMAIN m THEN m.type ELSE "undefined"

\* console.ts:302: event.data.type on null is a TypeError;
\* console.ts:312: event.data.data && ... skips a missing data;
\* console.ts:323: event.data.data[1]?.stack on a missing data is a
\* TypeError, raised before the entry is appended (349-353)
ListenerThrows(m) ==
    \/ "payload" \in DOMAIN m /\ m.payload = "null"
    \/ MessageType(m) = "console" /\ "data" \notin DOMAIN m

\* the listener changed to drop messages of documents other than the one
\* the preview was last pointed at
MessageListener_filtersByRun(view, m) ==
    IF m.type = "console" /\ m.origin = src
    THEN Append(view, [level |-> m.level, text |-> EntryText(m.data), origin |-> m.origin, epoch |-> runs,
                   filtered |-> m.level \notin activeFilters])
    ELSE view

\* the listener changed to insert the new entry before the first one
MessageListener_prepends(view, m) ==
    IF m.type = "console"
    THEN <<[level |-> m.level, text |-> EntryText(m.data), origin |-> m.origin, epoch |-> runs,
                   filtered |-> m.level \notin activeFilters]>> \o view
    ELSE view

\* handleConsoleMessage subscribed as well (initializeConsole called): two
\* listeners each append an entry
MessageListener_twoListeners(view, m) ==
    IF m.type = "console"
    THEN Append(Append(view, [level |-> m.level, text |-> EntryText(m.data), origin |-> m.origin, epoch |-> runs,
                   filtered |-> m.level \notin activeFilters]),
                [level |-> m.level, text |-> EntryText(m.data), origin |-> m.origin, epoch |-> runs,
                   filtered |-> m.level \notin activeFilters])
    ELSE view

\* the listener changed to lack the test of the message type
MessageListener_anyType(view, m) ==
    Append(view, [level |-> m.level, text |-> EntryText(m.data), origin |-> m.origin, epoch |-> runs,
                   filtered |-> m.level \notin activeFilters])

\* console.ts:301-356: the window "message" listener.  The origin of a
\* message is not part of the wire format; it records which run's document
\* posted it and is never read by the listener.
MessageListener(view, m) ==
    IF ListenerThrows(m) THEN view
    ELSE IF MessageType(m) = "console"
    THEN Append(view, [level |-> m.level, text |-> EntryText(m.data), origin |-> m.origin, epoch |-> runs,
                   filtered |-> m.level \notin activeFilters])
    ELSE view

\* console.ts:6-15: sendToConsole posts one message per console call
sendToConsole(level, doc) ==
    [type |-> "console", level |-> level, data |-> <<PrimitiveItem>>, origin |-> doc]

\* no handler of the shim has run yet
NoHandler == [handler |-> "none", level |-> "none", posts |-> 0, originals |-> 0,
              result |-> "none"]

\* console.ts:8-11: one call of sendToConsole: window.parent.postMessage
\* first, originalConsole[level].apply second, no try around either; a
\* postMessage whose arguments cannot be cloned throws DataCloneError
sendToConsoleCall(handler, level, cloneable, result) ==
    IF cloneable
    THEN [handler |-> handler, level |-> level, posts |-> 1, originals |-> 1,
          result |-> result]
    ELSE [handler |-> handler, level |-> level, posts |-> 0, originals |-> 0,
          result |-> "threw"]

\* what an uncaught exception or a rejection carries: an Error object
\* with a stack, or no Error object (a message string, no stack)
ThrownValues == {"Error", "string"}

\* console.ts:17, 21: error || message, { stack: error?.stack }
ErrorData(value) ==
    IF value = "Error" THEN <<ErrorItem, StackItem(TRUE)>>
    ELSE <<PrimitiveItem, StackItem(FALSE)>>

ErrorHandlerLevel_log == "log"

\* console.ts:17, 21: both handlers call sendToConsole('error', ...)
ErrorHandlerLevel == "error"

\* console.ts:16-19: window.onerror returns true;
\* console.ts:20-22: window.onunhandledrejection returns nothing
ErrorHandlers == {"onerror", "onunhandledrejection"}
HandlerResult(handler) == IF handler = "onerror" THEN "true" ELSE "returned"

\* console.ts:16-22: the message the error handlers post
errorMessage(value, doc) ==
    [type |-> "console", level |-> ErrorHandlerLevel, data |-> ErrorData(value),
     origin |-> doc]

\* types.ts:42-47 names one message type, "console"; the listener is
\* registered for every message posted to the window.  A message of another
\* type, with the fields of a console message:
otherMessage(doc) ==
    [type |-> "other", level |-> "log", data |-> <<PrimitiveItem>>, origin |-> doc]

----------------------------------------------------------------------------
(* Persistence, state.ts:15-24 *)

\* editor.ts:127-138: the document of the EditorState an editor was created
\* with; the field state of the editor object is never assigned again
CreatedDoc == <<>>

\* state.ts:16-18: the three fields are read from editors.X.state.doc
saveStateObject == [state EXCEPT !.html = CreatedDoc, !.css = CreatedDoc, !.js = CreatedDoc]

\* the catch block of saveState changed to be empty
BannerAfterSave_silent(ok, banner) == banner

\* state.ts:19-23: setItem throws and the catch block calls showError
BannerAfterSave(ok, banner) == IF ok THEN banner ELSE TRUE

----------------------------------------------------------------------------
(* Initial state: the page after DOMContentLoaded, editors empty *)

Init ==
    /\ editors = [html |-> <<>>, css |-> <<>>, js |-> <<>>]
    /\ pc = "Idle"
    /\ bundle = NoBundle
    /\ loading = FALSE
    /\ errorVisible = FALSE
    /\ console = <<>>
    /\ msgQueue = <<>>
    /\ src = 0
    /\ navigating = 0
    /\ loadEvents = {}
    /\ displayed = 0
    /\ listeners = {}
    /\ created = {}
    /\ revokeCount = [u \in 1..MaxRuns |-> 0]
    /\ loaded = {}
    /\ currentOutput = "preview"
    /\ activeView = {"preview"}
    /\ state = [html |-> <<>>, css |-> <<>>, js |-> <<>>,
                activeTab |-> "html", activeOutput |-> "preview"]
    /\ storage = NoItem
    /\ runs = 0
    /\ cleared = 0
    /\ ignored = FALSE
    /\ outcome = "none"
    /\ saveFailed = FALSE
    /\ fmt = NoFormat
    /\ activeFilters = Levels
    /\ sandbox = NoHandler
    /\ autoRun = FALSE
    /\ timers = 0
    /\ hostThrew = FALSE
    /\ currentTab = "html"
    /\ shownEditors = {"html"}
    /\ activeTabs = {"html"}
    /\ activeOutputTabs = {"preview"}
    /\ debounced = NewDebounced

----------------------------------------------------------------------------
(* Editor changes *)

EditorTexts(which) ==
    IF which = "html" THEN HtmlTexts
    ELSE IF which = "css" THEN CssTexts
    ELSE JsTexts

clearTimeout_noop(pending, id) == pending

\* console.ts:606: if (timeout) window.clearTimeout(timeout): the timer
\* with that id is removed if it is still pending
clearTimeout(pending, id) == {t \in pending : t.id # id}

\* console.ts:605-608: a call of the function debounce returned: the timer
\* of the call before is cleared and a new one is set, whose id is kept in
\* timeout
DebouncedCall(args) ==
    /\ debounced.calls < MaxCalls
    /\ LET id == debounced.calls + 1
           cleared_ == IF debounced.timeout # 0
                       THEN clearTimeout(debounced.timers, debounced.timeout)
                       ELSE debounced.timers
       IN debounced' =
            [timeout |-> id,
             timers |-> cleared_ \cup {[id |-> id, args |-> args]},
             invoked |-> debounced.invoked,
             calls |-> id,
             bursts |-> IF debounced.timers = {}
                        THEN Append(debounced.bursts, args)
                        ELSE [debounced.bursts EXCEPT ![Len(debounced.bursts)] = args]]
    /\ UNCHANGED <<editors, pc, bundle, loading, errorVisible, console,
                   msgQueue, src, navigating, loadEvents, displayed, listeners,
                   created, revokeCount, loaded, currentOutput, activeView,
                   state, storage, runs,
                   cleared, ignored, outcome, saveFailed,
                   fmt, activeFilters, sandbox, autoRun, timers, hostThrew,
                   currentTab, shownEditors, activeTabs, activeOutputTabs>>

\* console.ts:607: wait has elapsed for a pending timer: func.apply(this, args)
TimerExpire ==
    /\ \E t \in debounced.timers :
          debounced' = [debounced EXCEPT !.timers = debounced.timers \ {t},
                                         !.invoked = Append(debounced.invoked, t.args)]
    /\ UNCHANGED <<editors, pc, bundle, loading, errorVisible, console,
                   msgQueue, src, navigating, loadEvents, displayed, listeners,
                   created, revokeCount, loaded, currentOutput, activeView,
                   state, storage, runs,
                   cleared, ignored, outcome, saveFailed,
                   fmt, activeFilters, sandbox, autoRun, timers, hostThrew,
                   currentTab, shownEditors, activeTabs, activeOutputTabs>>

\* the most timers pending at once
MaxTimers == 2

\* editor.ts:119, 158, console.ts:411: debounce(runCode, 1000)() on a
\* change: a new debounced function per change, whose own timeout
\* variable is undefined (console.ts:604-607), so clearTimeout is never
\* called and one more timer is pending
debounce(pending) == pending + 1

\* view.dispatch({changes: ...}) by the user typing; with auto-run on the
\* update listener runs (editor.ts:117-121)
Edit(which, text) ==
    /\ pc = "Idle"
    /\ editors[which] # text
    /\ editors' = [editors EXCEPT ![which] = text]
    /\ autoRun => timers < MaxTimers
    /\ timers' = IF autoRun THEN debounce(timers) ELSE timers
    /\ UNCHANGED <<pc, bundle, loading, errorVisible, console,
                   msgQueue, src, navigating, loadEvents, displayed, listeners,
                   created, revokeCount, loaded, currentOutput, activeView,
                   state, storage, runs,
                   cleared, ignored, outcome, saveFailed,
                   fmt, activeFilters, sandbox, autoRun, hostThrew,
                   currentTab, shownEditors, activeTabs, activeOutputTabs, debounced>>

----------------------------------------------------------------------------
(* runCode, runner.ts:12-86 *)

\* runner.ts:13-18: show the indicator, clear the console, read the buffers
runCode ==
    /\ pc = "Idle"
    /\ runs < MaxRuns
    /\ runs' = runs + 1
    /\ loading' = showLoading
    /\ console' = clearConsole(console)
    /\ cleared' = Len(console)
    /\ bundle' = [html |-> editors.html, css |-> editors.css, js |-> editors.js]
    /\ pc' = "Validating"
    /\ outcome' = "none"
    /\ UNCHANGED <<editors, errorVisible, msgQueue, src, navigating,
                   loadEvents, displayed, listeners, created, revokeCount,
                   loaded, currentOutput, activeView, state, storage,
                   ignored, saveFailed,
                   fmt, activeFilters, sandbox, autoRun, hostThrew,
                   currentTab, shownEditors, activeTabs, activeOutputTabs, debounced>>

\* the user asks for a run (button, shortcut)
RunStart == runCode /\ UNCHANGED timers

\* console.ts:606: a pending timer fires and calls runCode
AutoRunFire ==
    /\ timers > 0
    /\ timers' = timers - 1
    /\ runCode

\* console.ts:401-419, editor.ts:151-166: toggleAutoRun flips the flag and
\* reconfigures the listeners; pending timers are left alone
toggleAutoRun ==
    /\ pc = "Idle"
    /\ autoRun' = ~autoRun
    /\ UNCHANGED <<editors, pc, bundle, loading, errorVisible, console,
                   msgQueue, src, navigating, loadEvents, displayed, listeners,
                   created, revokeCount, loaded, currentOutput, activeView,
                   state, storage, runs,
                   cleared, ignored, outcome, saveFailed,
                   fmt, activeFilters, sandbox, timers, hostThrew,
                   currentTab, shownEditors, activeTabs, activeOutputTabs, debounced>>

\* runner.ts:21-22: the pre-parse does not throw
ValidatePass ==
    /\ pc = "Validating"
    /\ ~SyntaxCheckFails(bundle.js)
    /\ pc' = "BuildingLoading"
    /\ UNCHANGED <<editors, bundle, loading, errorVisible, console,
                   msgQueue, src, navigating, loadEvents, displayed, listeners,
                   created, revokeCount, loaded, currentOutput, activeView,
                   state, storage, runs,
                   cleared, ignored, outcome, saveFailed,
                   fmt, activeFilters, sandbox, autoRun, timers, hostThrew,
                   currentTab, shownEditors, activeTabs, activeOutputTabs, debounced>>

\* the syntax-error branch changed to persist the buffers before returning
ValidateFail_saves ==
    /\ pc = "Validating"
    /\ SyntaxCheckFails(bundle.js)
    /\ console' = logConsoleError(console, SyntaxErrorMessage)
    /\ loading' = hideLoading
    /\ state' = saveStateObject
    /\ storage' = saveStateObject
    /\ pc' = "Failed"
    /\ UNCHANGED <<editors, bundle, errorVisible, msgQueue, src,
                   navigating, loadEvents, displayed, listeners, created,
                   revokeCount, loaded, currentOutput, activeView, runs,
                   cleared, ignored, outcome, saveFailed,
                   fmt, activeFilters, sandbox, autoRun, timers, hostThrew,
                   currentTab, shownEditors, activeTabs, activeOutputTabs, debounced>>

\* the syntax-error branch changed to lack its return statement
ValidateFail_fallsThrough ==
    /\ pc = "Validating"
    /\ SyntaxCheckFails(bundle.js)
    /\ console' = logConsoleError(console, SyntaxErrorMessage)
    /\ loading' = hideLoading
    /\ pc' = "BuildingLoading"
    /\ UNCHANGED <<editors, bundle, errorVisible, msgQueue, src,
                   navigating, loadEvents, displayed, listeners, created,
                   revokeCount, loaded, currentOutput, activeView, state,
                   storage, runs, cleared, ignored, outcome, saveFailed,
                   fmt, activeFilters, sandbox, autoRun, timers, hostThrew,
                   currentTab, shownEditors, activeTabs, activeOutputTabs, debounced>>

\* runner.ts:23-27: the pre-parse throws; log, hide the indicator, return
ValidateFail ==
    /\ pc = "Validating"
    /\ SyntaxCheckFails(bundle.js)
    /\ console' = logConsoleError(console, SyntaxErrorMessage)
    /\ loading' = hideLoading
    /\ pc' = "Failed"
    /\ UNCHANGED <<editors, bundle, errorVisible, msgQueue, src,
                   navigating, loadEvents, displayed, listeners, created,
                   revokeCount, loaded, currentOutput, activeView, state,
                   storage, runs,
                   cleared, ignored, outcome, saveFailed,
                   fmt, activeFilters, sandbox, autoRun, timers, hostThrew,
                   currentTab, shownEditors, activeTabs, activeOutputTabs, debounced>>

\* runner.ts:83-85: the finally block on the return of line 26
FailedReturn ==
    /\ pc = "Failed"
    /\ loading' = hideLoading
    /\ bundle' = NoBundle
    /\ pc' = "Idle"
    /\ outcome' = "returned"
    /\ UNCHANGED <<editors, errorVisible, console, msgQueue, src,
                   navigating, loadEvents, displayed, listeners, created,
                   revokeCount, loaded, currentOutput, activeView, state,
                   storage, runs,
                   cleared, ignored, saveFailed,
                   fmt, activeFilters, sandbox, autoRun, timers, hostThrew,
                   currentTab, shownEditors, activeTabs, activeOutputTabs, debounced>>

\* hideLoading moved from the finally block to the end of the try block
LoadingAfterRun_noFinally(threw) == IF threw THEN loading ELSE hideLoading

\* runner.ts:83-85: the finally block runs whether or not the try block threw
LoadingAfterRun(threw) == hideLoading

\* the catch block changed to throw the exception again
RunOutcome_rethrows(threw) == IF threw THEN "thrown" ELSE "returned"

\* runner.ts:81-83: the catch block handles every exception of the try
\* block and throws none itself, so the call returns either way
RunOutcome(threw) == IF threw THEN "caught" ELSE "returned"

Outputs == {"preview", "console"}

\* ui.ts:67-77: with a known name the class "active" is removed from every
\* element and added to the target; with an unknown name the function has
\* returned at line 69 and the classes are as they were
OutputClasses(output, old) == IF output \in Outputs THEN {output} ELSE old

PreviewSrc_keepsPending(assigned, url, old) ==
    IF assigned /\ old = 0 THEN url ELSE old

\* runner.ts:77: preview.src = url replaces the source, whatever the
\* preview was loading, and starts the navigation to url
PreviewSrc(assigned, url, old) ==
    IF assigned THEN url ELSE old

\* runner.ts:29-85.  previewOk: line 74 finds an iframe.  fault: the step
\* that raises an exception, if any.  ok1, ok2: localStorage.setItem
\* succeeds in the saveState call of switchOutput (ui.ts:79) and in the one
\* of runner.ts:80.
BuildAndLoad(previewOk, fault, ok1, ok2) ==
    LET url == runs
        built == fault # "build"
        assigned == built /\ previewOk
        switched == assigned /\ fault # "switchOutput"
        saved == switched /\ fault # "saveState"
        threw == ~saved
        saveThrew == (switched /\ ~ok1) \/ (saved /\ ~ok2)
        banner1 == IF switched THEN BannerAfterSave(ok1, errorVisible) ELSE errorVisible
        banner2 == IF saved THEN BannerAfterSave(ok2, banner1) ELSE banner1
        written == (switched /\ ok1) \/ (saved /\ ok2)
    IN
    /\ pc = "BuildingLoading"
    /\ created' = IF built THEN created \cup {url} ELSE created
    /\ src' = PreviewSrc(assigned, url, src)
    /\ navigating' = PreviewSrc(assigned, url, navigating)
    /\ listeners' = IF assigned THEN listeners \cup {url} ELSE listeners
    /\ currentOutput' = IF switched THEN "preview" ELSE currentOutput
    /\ activeView' = IF switched THEN OutputClasses("preview", activeView) ELSE activeView
    /\ activeOutputTabs' = IF switched THEN OutputClasses("preview", activeOutputTabs)
                         ELSE activeOutputTabs
    /\ state' = IF switched THEN saveStateObject ELSE state
    /\ storage' = IF written THEN saveStateObject ELSE storage
    /\ errorVisible' = IF threw THEN TRUE ELSE banner2
    /\ loading' = LoadingAfterRun(threw)
    /\ bundle' = NoBundle
    /\ pc' = "Idle"
    /\ outcome' = RunOutcome(threw)
    /\ saveFailed' = IF switched THEN saveThrew ELSE saveFailed
    /\ UNCHANGED <<editors, console, msgQueue, loadEvents, displayed,
                   revokeCount, loaded, runs,
                   cleared, ignored,
                   fmt, activeFilters, sandbox, autoRun, timers, hostThrew,
                   currentTab, shownEditors, activeTabs, debounced>>

Faults == {"none", "build", "switchOutput", "saveState"}

----------------------------------------------------------------------------
(* The preview iframe *)

\* the preview finishes fetching and parsing its src: the document is
\* displayed and the load event is queued
CompleteLoad ==
    /\ pc = "Idle"
    /\ navigating # 0
    /\ displayed' = navigating
    /\ loadEvents' = loadEvents \cup {navigating}
    /\ navigating' = 0
    /\ UNCHANGED <<editors, pc, bundle, loading, errorVisible,
                   console, msgQueue, src, listeners, created, revokeCount,
                   loaded, currentOutput, activeView, state, storage, runs,
                   cleared, ignored, outcome, saveFailed,
                   fmt, activeFilters, sandbox, autoRun, timers, hostThrew,
                   currentTab, shownEditors, activeTabs, activeOutputTabs, debounced>>

\* runner.ts:78: every listener registered so far runs on a load event
FireLoad(u) ==
    /\ pc = "Idle"
    /\ u \in loadEvents
    /\ loadEvents' = loadEvents \ {u}
    /\ loaded' = loaded \cup {u}
    /\ revokeCount' = [x \in DOMAIN revokeCount |->
                         IF x \in listeners THEN revokeCount[x] + 1 ELSE revokeCount[x]]
    /\ UNCHANGED <<editors, pc, bundle, loading, errorVisible,
                   console, msgQueue, src, navigating, displayed, listeners,
                   created, currentOutput, activeView, state, storage, runs,
                   cleared, ignored, outcome, saveFailed,
                   fmt, activeFilters, sandbox, autoRun, timers, hostThrew,
                   currentTab, shownEditors, activeTabs, activeOutputTabs, debounced>>

\* console.ts:8-15: a console call in the displayed document
SandboxEmit(level) ==
    /\ pc = "Idle"
    /\ displayed # 0
    /\ Len(msgQueue) + Len(console) < MaxEntries
    /\ msgQueue' = Append(msgQueue, sendToConsole(level, displayed))
    /\ sandbox' = sendToConsoleCall("console", level, TRUE, "returned")
    /\ UNCHANGED <<editors, pc, bundle, loading, errorVisible,
                   console, src, navigating, loadEvents, displayed, listeners,
                   created, revokeCount, loaded, currentOutput, activeView,
                   state, storage, runs,
                   cleared, ignored, outcome, saveFailed,
                   fmt, activeFilters, autoRun, timers, hostThrew,
                   currentTab, shownEditors, activeTabs, activeOutputTabs, debounced>>

\* console.ts:8-15: a console call whose argument cannot be cloned (a
\* function, a DOM node): postMessage throws before the original method
SandboxEmitUncloneable(level) ==
    /\ pc = "Idle"
    /\ displayed # 0
    /\ sandbox' = sendToConsoleCall("console", level, FALSE, "returned")
    /\ UNCHANGED <<editors, pc, bundle, loading, errorVisible, msgQueue,
                   console, src, navigating, loadEvents, displayed, listeners,
                   created, revokeCount, loaded, currentOutput, activeView,
                   state, storage, runs,
                   cleared, ignored, outcome, saveFailed,
                   fmt, activeFilters, autoRun, timers, hostThrew,
                   currentTab, shownEditors, activeTabs, activeOutputTabs, debounced>>

\* console.ts:16-22: an uncaught exception (onerror) or an unhandled
\* rejection (onunhandledrejection) in the displayed document
SandboxUncaught(handler, value) ==
    /\ pc = "Idle"
    /\ displayed # 0
    /\ Len(msgQueue) + Len(console) < MaxEntries
    /\ msgQueue' = Append(msgQueue, errorMessage(value, displayed))
    /\ sandbox' = sendToConsoleCall(handler, ErrorHandlerLevel, TRUE,
                                    HandlerResult(handler))
    /\ UNCHANGED <<editors, pc, bundle, loading, errorVisible,
                   console, src, navigating, loadEvents, displayed, listeners,
                   created, revokeCount, loaded, currentOutput, activeView,
                   state, storage, runs,
                   cleared, ignored, outcome, saveFailed,
                   fmt, activeFilters, autoRun, timers, hostThrew,
                   currentTab, shownEditors, activeTabs, activeOutputTabs, debounced>>

\* the displayed document posts a message of another type to the host
SandboxPostOther ==
    /\ pc = "Idle"
    /\ displayed # 0
    /\ Len(msgQueue) + Len(console) < MaxEntries
    /\ msgQueue' = Append(msgQueue, otherMessage(displayed))
    /\ UNCHANGED <<editors, pc, bundle, loading, errorVisible,
                   console, src, navigating, loadEvents, displayed, listeners,
                   created, revokeCount, loaded, currentOutput, activeView,
                   state, storage, runs,
                   cleared, ignored, outcome, saveFailed,
                   fmt, activeFilters, sandbox, autoRun, timers, hostThrew,
                   currentTab, shownEditors, activeTabs, activeOutputTabs, debounced>>

\* the malformed messages a window can post to the host
MalformedMessages(doc) ==
    {NullPayload(doc), StringPayload(doc),
     NoDataMessage(doc)}

\* window.parent.postMessage called by the page itself with a payload the
\* shim would not build; the listener does not test the sender
SandboxPostMalformed(m) ==
    /\ pc = "Idle"
    /\ displayed # 0
    /\ m \in MalformedMessages(displayed)
    /\ Len(msgQueue) + Len(console) < MaxEntries
    /\ msgQueue' = Append(msgQueue, m)
    /\ UNCHANGED <<editors, pc, bundle, loading, errorVisible,
                   console, src, navigating, loadEvents, displayed, listeners,
                   created, revokeCount, loaded, currentOutput, activeView,
                   state, storage, runs,
                   cleared, ignored, outcome, saveFailed,
                   fmt, activeFilters, sandbox, autoRun, timers, hostThrew,
                   currentTab, shownEditors, activeTabs, activeOutputTabs, debounced>>

\* console.ts:301-356: the host dispatches the oldest posted message to the
\* one registered listener
DeliverMessage ==
    /\ pc = "Idle"
    /\ msgQueue # <<>>
    /\ console' = MessageListener(console, Head(msgQueue))
    /\ msgQueue' = Tail(msgQueue)
    /\ ignored' = (ignored \/ (~ListenerThrows(Head(msgQueue))
                               /\ MessageType(Head(msgQueue)) # "console"))
    /\ hostThrew' = (hostThrew \/ ListenerThrows(Head(msgQueue)))
    /\ UNCHANGED <<editors, pc, bundle, loading, errorVisible,
                   src, navigating, loadEvents, displayed, listeners, created,
                   revokeCount, loaded, currentOutput, activeView, state,
                   storage, runs,
                   cleared, outcome, saveFailed,
                   fmt, activeFilters, sandbox, autoRun, timers,
                   currentTab, shownEditors, activeTabs, activeOutputTabs, debounced>>

\* ui.ts:58-80: the user selects an output tab.  ok: localStorage.setItem
\* succeeds in saveState.
switchOutput(output, ok) ==
    LET valid == output \in Outputs IN
    /\ pc = "Idle"
    /\ currentOutput' = output
    /\ activeView' = OutputClasses(output, activeView)
    /\ activeOutputTabs' = OutputClasses(output, activeOutputTabs)
    /\ state' = IF valid THEN saveStateObject ELSE state
    /\ storage' = IF valid /\ ok THEN saveStateObject ELSE storage
    /\ errorVisible' = IF valid THEN BannerAfterSave(ok, errorVisible) ELSE errorVisible
    /\ saveFailed' = IF valid THEN ~ok ELSE saveFailed
    /\ UNCHANGED <<editors, pc, bundle, loading, console, msgQueue, src,
                   navigating, loadEvents, displayed, listeners, created,
                   revokeCount, loaded, runs,
                   cleared, ignored, outcome,
                   fmt, activeFilters, sandbox, autoRun, timers, hostThrew,
                   currentTab, shownEditors, activeTabs, debounced>>

\* the names of the editor tabs
EditorTabs == {"html", "css", "js"}

\* ui.ts:37-40, 47-52: every container is hidden first; with a known name
\* the target is displayed, with an unknown name the function returns
EditorsShown(tab, old) == IF tab \in EditorTabs THEN {tab} ELSE {}

\* ui.ts:53: classList.add("active") on the target tab; no statement of
\* ui.ts:35-56 removes the class from another tab
TabClasses(tab, old) == IF tab \in EditorTabs THEN old \cup {tab} ELSE old

\* ui.ts:35-56: switchTab.  ok: localStorage.setItem succeeds in saveState.
switchTab(tab, ok) ==
    LET valid == tab \in EditorTabs IN
    /\ pc = "Idle"
    /\ currentTab' = tab
    /\ shownEditors' = EditorsShown(tab, shownEditors)
    /\ activeTabs' = TabClasses(tab, activeTabs)
    /\ state' = IF valid THEN saveStateObject ELSE state
    /\ storage' = IF valid /\ ok THEN saveStateObject ELSE storage
    /\ errorVisible' = IF valid THEN BannerAfterSave(ok, errorVisible) ELSE errorVisible
    /\ saveFailed' = IF valid THEN ~ok ELSE saveFailed
    /\ UNCHANGED <<editors, pc, bundle, loading, console, msgQueue, src,
                   navigating, loadEvents, displayed, listeners, created,
                   revokeCount, loaded, runs,
                   cleared, ignored, outcome,
                   fmt, activeFilters, sandbox, autoRun, timers, hostThrew,
                   currentOutput, activeView, activeOutputTabs, debounced>>

\* the names a caller can pass: the known ones and one unknown
TabInputs == EditorTabs \cup {"settings"}
OutputInputs == Outputs \cup {"popup"}

\* what localStorage can hold under the key at startup: nothing, a state
\* saveState wrote, or an object another writer left there
StoredItems ==
    {NoItem,
     [html |-> <<>>, css |-> <<>>, js |-> <<>>,
      activeTab |-> "html", activeOutput |-> "preview"],
     [activeTab |-> "css", activeOutput |-> "console"],
     [activeTab |-> "settings"],
     [activeOutput |-> "popup"]}

\* state.ts:32-46: parsed.html !== undefined leads to editors.html.dispatch,
\* which the editor object of editor.ts:138 does not have: a TypeError
LoadThrows(item) == {"html", "css", "js"} \cap DOMAIN item # {}

\* state.ts:26-60: loadState at startup, with resetCode (62-113) where it
\* is called.  c1, c2: the answers to the confirm dialogs; ok1, ok2:
\* localStorage.setItem succeeds in the saveState of switchTab and of
\* switchOutput.
loadState(c1, c2, ok1, ok2) ==
    LET item == storage
        absent == item = NoItem
        threw == ~absent /\ LoadThrows(item)
        applies == ~absent /\ ~threw
        callTab == applies /\ "activeTab" \in DOMAIN item
        callOut == applies /\ "activeOutput" \in DOMAIN item
        savedTab == callTab /\ item.activeTab \in EditorTabs
        savedOut == callOut /\ item.activeOutput \in Outputs
        banner1 == IF savedTab THEN BannerAfterSave(ok1, errorVisible) ELSE errorVisible
        banner2 == IF savedOut THEN BannerAfterSave(ok2, banner1) ELSE banner1
        \* resetCode in the try block throws into the catch, which shows
        \* the banner and calls resetCode again
        caught == threw \/ (absent /\ c1)
        uncaught == (threw /\ c1) \/ (absent /\ c1 /\ c2)
    IN
    /\ pc = "Startup"
    /\ currentTab' = IF callTab THEN item.activeTab ELSE currentTab
    /\ shownEditors' = IF callTab THEN EditorsShown(item.activeTab, shownEditors)
                       ELSE shownEditors
    /\ activeTabs' = IF callTab THEN TabClasses(item.activeTab, activeTabs) ELSE activeTabs
    /\ currentOutput' = IF callOut THEN item.activeOutput ELSE currentOutput
    /\ activeView' = IF callOut THEN OutputClasses(item.activeOutput, activeView)
                     ELSE activeView
    /\ activeOutputTabs' = IF callOut THEN OutputClasses(item.activeOutput, activeOutputTabs)
                           ELSE activeOutputTabs
    /\ state' = IF savedTab \/ savedOut THEN saveStateObject ELSE state
    /\ storage' = IF (savedTab /\ ok1) \/ (savedOut /\ ok2) THEN saveStateObject
                  ELSE storage
    /\ saveFailed' = IF savedOut THEN ~ok2 ELSE IF savedTab THEN ~ok1 ELSE saveFailed
    /\ errorVisible' = IF caught THEN TRUE ELSE banner2
    /\ hostThrew' = (hostThrew \/ uncaught)
    /\ IF applies
       THEN /\ runs' = runs + 1
            /\ loading' = showLoading
            /\ console' = clearConsole(console)
            /\ cleared' = Len(console)
            /\ bundle' = [html |-> editors.html, css |-> editors.css, js |-> editors.js]
            /\ pc' = "Validating"
            /\ outcome' = "none"
       ELSE /\ pc' = "Idle"
            /\ UNCHANGED <<runs, loading, console, cleared, bundle, outcome, debounced>>
    /\ UNCHANGED <<editors, msgQueue, src, navigating, loadEvents, displayed,
                   listeners, created, revokeCount, loaded, ignored,
                   fmt, activeFilters, sandbox, autoRun, timers, debounced>>

\* ui.ts:32: the 5 s timer of showError
ErrorTimeout ==
    /\ pc = "Idle"
    /\ errorVisible
    /\ errorVisible' = FALSE
    /\ UNCHANGED <<editors, pc, bundle, loading, console,
                   msgQueue, src, navigating, loadEvents, displayed, listeners,
                   created, revokeCount, loaded, currentOutput, activeView,
                   state, storage, runs,
                   cleared, ignored, outcome, saveFailed,
                   fmt, activeFilters, sandbox, autoRun, timers, hostThrew,
                   currentTab, shownEditors, activeTabs, activeOutputTabs, debounced>>

----------------------------------------------------------------------------
(* Log filters, console.ts:513-550 *)

\* the filter buttons the user clicks
ToggleLevels == {"log", "error"}

\* console.ts:535-550: every entry is hidden or shown by its level
applyLogFilters(view, filters) ==
    [i \in 1..Len(view) |-> [view[i] EXCEPT !.filtered = view[i].level \notin filters]]

\* console.ts:516-533: a click on a filter button.  ok: localStorage.setItem
\* succeeds; when it throws, the handler ends before applyLogFilters.
toggleLogFilter(type, ok) ==
    /\ pc = "Idle"
    /\ activeFilters' = IF type \in activeFilters THEN activeFilters \ {type}
                        ELSE activeFilters \cup {type}
    /\ console' = IF ok THEN applyLogFilters(console, activeFilters') ELSE console
    /\ UNCHANGED <<editors, pc, bundle, loading, errorVisible,
                   msgQueue, src, navigating, loadEvents, displayed, listeners,
                   created, revokeCount, loaded, currentOutput, activeView,
                   state, storage, runs, cleared, ignored, outcome, saveFailed,
                   fmt, sandbox, autoRun, timers, hostThrew,
                   currentTab, shownEditors, activeTabs, activeOutputTabs, debounced>>

----------------------------------------------------------------------------
(* formatCode, runner.ts:88-152 *)

\* texts typed before formatting: well-formed ones and ones no parser of
\* the formatter accepts
FormatTexts(which) ==
    IF which = "html" THEN { <<"<p>", "hi", "</p>", " ">>, <<"<p">> }
    ELSE IF which = "css" THEN { <<"p{color:red}", "\n">>, <<"p{">> }
    ELSE { <<"f", "(", ")", " ">>, <<"function", "(">> }

\* tokens the html and css parsers of the formatter reject
Unparsable == {"<p", "p{"}

\* prettier.format rejects: the text does not parse
PrettierThrows(which, text) ==
    IF which = "js" THEN ParenDepth(text, 0) # 0
    ELSE \E i \in 1..Len(text) : text[i] \in Unparsable

\* prettier.format resolves: surrounding white space is dropped and a
\* non-empty result ends with one line break
Prettier(text) == IF Trim(text) = <<>> THEN <<>> ELSE Trim(text) \o <<"\n">>

\* formatCode is pending on the promise of one of the three buffers
Formatting == fmt.step \in {"html", "css", "js"}

\* runner.ts:89-91: formatCode is called; the HTML buffer is read and
\* handed to the formatter
FormatStart ==
    /\ pc = "Idle"
    /\ ~Formatting
    /\ fmt' = [NoFormat EXCEPT !.step = "html", !.input = editors.html]
    /\ UNCHANGED <<editors, pc, bundle, loading, errorVisible, console,
                   msgQueue, src, navigating, loadEvents, displayed, listeners,
                   created, revokeCount, loaded, currentOutput, activeView,
                   state, storage, runs, cleared, ignored, outcome, saveFailed, activeFilters, sandbox, autoRun, timers, hostThrew,
                   currentTab, shownEditors, activeTabs, activeOutputTabs, debounced>>

\* each buffer replaced as soon as its own formatting has resolved
EditorsAfterFormat_eager(which, formatted) == [editors EXCEPT ![which] = formatted]

\* runner.ts:89-124: a resolved result is kept in a local; no buffer is
\* replaced before all three have resolved
EditorsAfterFormat(which, formatted) == editors

\* runner.ts:89-122: the promise for the HTML or the CSS buffer resolves;
\* the next buffer is read and handed to the formatter
FormatNext ==
    /\ pc = "Idle"
    /\ fmt.step \in {"html", "css"}
    /\ ~PrettierThrows(fmt.step, fmt.input)
    /\ LET next == IF fmt.step = "html" THEN "css" ELSE "js"
       IN fmt' = [step |-> next, input |-> editors[next],
                  out |-> [fmt.out EXCEPT ![fmt.step] = Prettier(fmt.input)]]
    /\ editors' = EditorsAfterFormat(fmt.step, Prettier(fmt.input))
    /\ UNCHANGED <<pc, bundle, loading, errorVisible, console,
                   msgQueue, src, navigating, loadEvents, displayed, listeners,
                   created, revokeCount, loaded, currentOutput, activeView,
                   state, storage, runs, cleared, ignored, outcome, saveFailed, activeFilters, sandbox, autoRun, timers, hostThrew,
                   currentTab, shownEditors, activeTabs, activeOutputTabs, debounced>>

\* runner.ts:149-151: a promise rejects; the catch block shows the banner
FormatFail ==
    /\ pc = "Idle"
    /\ Formatting
    /\ PrettierThrows(fmt.step, fmt.input)
    /\ errorVisible' = TRUE
    /\ fmt' = [NoFormat EXCEPT !.step = "failed"]
    /\ UNCHANGED <<editors, pc, bundle, loading, console,
                   msgQueue, src, navigating, loadEvents, displayed, listeners,
                   created, revokeCount, loaded, currentOutput, activeView,
                   state, storage, runs, cleared, ignored, outcome, saveFailed, activeFilters, sandbox, autoRun, timers, hostThrew,
                   currentTab, shownEditors, activeTabs, activeOutputTabs, debounced>>

\* runner.ts:110-148: the promise for the JS buffer resolves; the three
\* buffers are replaced and saveState is called.  ok: localStorage.setItem
\* succeeds.
FormatFinish(ok) ==
    /\ pc = "Idle"
    /\ fmt.step = "js"
    /\ ~PrettierThrows("js", fmt.input)
    /\ editors' = [fmt.out EXCEPT !.js = Prettier(fmt.input)]
    /\ state' = saveStateObject
    /\ storage' = IF ok THEN saveStateObject ELSE storage
    /\ errorVisible' = BannerAfterSave(ok, errorVisible)
    /\ saveFailed' = ~ok
    /\ fmt' = [NoFormat EXCEPT !.step = "done"]
    /\ UNCHANGED <<pc, bundle, loading, console,
                   msgQueue, src, navigating, loadEvents, displayed, listeners,
                   created, revokeCount, loaded, currentOutput, activeView,
                   runs, cleared, ignored, outcome, activeFilters, sandbox, autoRun, timers, hostThrew,
                   currentTab, shownEditors, activeTabs, activeOutputTabs, debounced>>

----------------------------------------------------------------------------

Next ==
    \/ \E which \in {"html", "css", "js"} : \E text \in EditorTexts(which) : Edit(which, text)
    \/ RunStart
    \/ ValidatePass
    \/ ValidateFail
    \/ FailedReturn
    \/ \E previewOk \in BOOLEAN, fault \in Faults, ok1 \in BOOLEAN, ok2 \in BOOLEAN :
          BuildAndLoad(previewOk, fault, ok1, ok2)
    \/ CompleteLoad
    \/ \E u \in loadEvents : FireLoad(u)
    \/ \E level \in EmitLevels : SandboxEmit(level)
    \/ \E level \in Levels : SandboxEmitUncloneable(level)
    \/ \E handler \in ErrorHandlers, value \in ThrownValues :
          SandboxUncaught(handler, value)
    \/ SandboxPostOther
    \/ \E m \in MalformedMessages(displayed) : SandboxPostMalformed(m)
    \/ DeliverMessage
    \/ \E output \in Outputs, ok \in BOOLEAN : switchOutput(output, ok)
    \/ ErrorTimeout
    \/ FormatStart
    \/ FormatNext
    \/ FormatFail
    \/ \E ok \in BOOLEAN : FormatFinish(ok)
    \/ \E type \in ToggleLevels, ok \in BOOLEAN : toggleLogFilter(type, ok)
    \/ toggleAutoRun
    \/ AutoRunFire
    \/ \E tab \in TabInputs, ok \in BOOLEAN : switchTab(tab, ok)
    \/ \E c1 \in BOOLEAN, c2 \in BOOLEAN, ok1 \in BOOLEAN, ok2 \in BOOLEAN :
          loadState(c1, c2, ok1, ok2)
    \/ \E args \in CallArgs : DebouncedCall(args)
    \/ TimerExpire

Spec == Init /\ [][Next]_vars

\* The formatter: the three editors, formatCode, the saved state and the
\* error banner.
FormatSpecNext ==
    \/ \E which \in {"html", "css", "js"} : \E text \in FormatTexts(which) : Edit(which, text)
    \/ FormatStart
    \/ FormatNext
    \/ FormatFail
    \/ \E ok \in BOOLEAN : FormatFinish(ok)
    \/ ErrorTimeout

FormatSpec == Init /\ [][FormatSpecNext]_vars

\* The renderer: a document is displayed and has posted one console.log
\* call whose argument is the first object of a sample heap; the listener
\* renders it.
\* the preview shows the document of a finished run and nothing is queued
ShimInit ==
    /\ msgQueue = <<>>
    /\ editors = [html |-> <<>>, css |-> <<>>, js |-> <<"f", "(", ")">>]
    /\ pc = "Idle"
    /\ bundle = NoBundle
    /\ loading = FALSE
    /\ errorVisible = FALSE
    /\ console = <<>>
    /\ src = 1
    /\ navigating = 0
    /\ loadEvents = {1}
    /\ displayed = 1
    /\ listeners = {1}
    /\ created = {1}
    /\ revokeCount = [u \in 1..MaxRuns |-> 0]
    /\ loaded = {}
    /\ currentOutput = "preview"
    /\ activeView = {currentOutput}
    /\ state = [html |-> <<>>, css |-> <<>>, js |-> <<>>,
                activeTab |-> "html", activeOutput |-> "preview"]
    /\ storage = state
    /\ runs = 1
    /\ cleared = 0
    /\ ignored = FALSE
    /\ outcome = "returned"
    /\ saveFailed = FALSE
    /\ fmt = NoFormat
    /\ activeFilters = Levels
    /\ sandbox = NoHandler
    /\ autoRun = FALSE
    /\ timers = 0
    /\ hostThrew = FALSE
    /\ currentTab = "html"
    /\ shownEditors = {"html"}
    /\ activeTabs = {"html"}
    /\ activeOutputTabs = {"preview"}
    /\ debounced = NewDebounced

ShimNext ==
    \/ \E level \in Levels : SandboxEmit(level)
    \/ \E level \in Levels : SandboxEmitUncloneable(level)
    \/ \E handler \in ErrorHandlers, value \in ThrownValues :
          SandboxUncaught(handler, value)
    \/ DeliverMessage

ShimSpec == ShimInit /\ [][ShimNext]_vars

\* the page opened with some stored item: loadState, its run, and the
\* tab switches that follow
UiInit ==
    /\ editors = [html |-> <<>>, css |-> <<>>, js |-> <<>>]
    /\ pc = "Startup"
    /\ bundle = NoBundle
    /\ loading = FALSE
    /\ errorVisible = FALSE
    /\ console = <<>>
    /\ msgQueue = <<>>
    /\ src = 0
    /\ navigating = 0
    /\ loadEvents = {}
    /\ displayed = 0
    /\ listeners = {}
    /\ created = {}
    /\ revokeCount = [u \in 1..MaxRuns |-> 0]
    /\ loaded = {}
    /\ currentOutput = "preview"
    /\ activeView = {"preview"}
    /\ state = [html |-> <<>>, css |-> <<>>, js |-> <<>>,
                activeTab |-> "html", activeOutput |-> "preview"]
    /\ storage \in StoredItems
    /\ runs = 0
    /\ cleared = 0
    /\ ignored = FALSE
    /\ outcome = "none"
    /\ saveFailed = FALSE
    /\ fmt = NoFormat
    /\ activeFilters = Levels
    /\ sandbox = NoHandler
    /\ autoRun = FALSE
    /\ timers = 0
    /\ hostThrew = FALSE
    /\ currentTab = "html"
    /\ shownEditors = {"html"}
    /\ activeTabs = {"html"}
    /\ activeOutputTabs = {"preview"}
    /\ debounced = NewDebounced

UiNext ==
    \/ \E c1 \in BOOLEAN, c2 \in BOOLEAN, ok1 \in BOOLEAN, ok2 \in BOOLEAN :
          loadState(c1, c2, ok1, ok2)
    \/ ValidatePass
    \/ \E previewOk \in BOOLEAN, fault \in Faults, ok1 \in BOOLEAN, ok2 \in BOOLEAN :
          BuildAndLoad(previewOk, fault, ok1, ok2)
    \/ \E tab \in TabInputs, ok \in BOOLEAN : switchTab(tab, ok)
    \/ \E output \in OutputInputs, ok \in BOOLEAN : switchOutput(output, ok)

UiSpec == UiInit /\ [][UiNext]_vars

\* one debounced function: its calls and its timers; a timer that is
\* pending expires in the end
DebounceNext ==
    \/ \E args \in CallArgs : DebouncedCall(args)
    \/ TimerExpire

DebounceSpec == Init /\ [][DebounceNext]_vars /\ WF_vars(TimerExpire)

\* the relay fed well-formed and malformed messages
RelayNext ==
    \/ \E level \in Levels : SandboxEmit(level)
    \/ SandboxPostOther
    \/ \E m \in MalformedMessages(displayed) : SandboxPostMalformed(m)
    \/ DeliverMessage

RelaySpec == ShimInit /\ [][RelayNext]_vars

RenderInit ==
    /\ \E h \in HeapsOf(MaxObjects) :
          msgQueue = <<[type |-> "console", level |-> "log",
                        data |-> <<[heap |-> h, root |-> 1]>>, origin |-> 1]>>
    /\ editors = [html |-> <<>>, css |-> <<>>, js |-> <<"f", "(", ")">>]
    /\ pc = "Idle"
    /\ bundle = NoBundle
    /\ loading = FALSE
    /\ errorVisible = FALSE
    /\ console = <<>>
    /\ src = 1
    /\ navigating = 0
    /\ loadEvents = {1}
    /\ displayed = 1
    /\ listeners = {1}
    /\ created = {1}
    /\ revokeCount = [u \in 1..MaxRuns |-> 0]
    /\ loaded = {}
    /\ currentOutput = "preview"
    /\ activeView = {"preview"}
    /\ state = [html |-> <<>>, css |-> <<>>, js |-> <<>>,
                activeTab |-> "html", activeOutput |-> "preview"]
    /\ storage = state
    /\ runs = 1
    /\ cleared = 0
    /\ ignored = FALSE
    /\ outcome = "returned"
    /\ saveFailed = FALSE
    /\ fmt = NoFormat
    /\ activeFilters = Levels
    /\ sandbox = NoHandler
    /\ autoRun = FALSE
    /\ timers = 0
    /\ hostThrew = FALSE
    /\ currentTab = "html"
    /\ shownEditors = {"html"}
    /\ activeTabs = {"html"}
    /\ activeOutputTabs = {"preview"}
    /\ debounced = NewDebounced

RenderSpec == RenderInit /\ [][DeliverMessage]_vars

\* The builder alone: a first run that has read its buffers and passed the
\* pre-check, for every sample bundle; its one step assembles the document.
BuilderInit ==
    /\ \E html \in BuilderHtml, css \in BuilderCss, js \in BuilderJs :
          /\ ~SyntaxCheckFails(js)
          /\ editors = [html |-> html, css |-> css, js |-> js]
          /\ bundle = [html |-> html, css |-> css, js |-> js]
    /\ pc = "BuildingLoading"
    /\ loading = showLoading
    /\ errorVisible = FALSE
    /\ console = <<>>
    /\ msgQueue = <<>>
    /\ src = 0
    /\ navigating = 0
    /\ loadEvents = {}
    /\ displayed = 0
    /\ listeners = {}
    /\ created = {}
    /\ revokeCount = [u \in 1..MaxRuns |-> 0]
    /\ loaded = {}
    /\ currentOutput = "preview"
    /\ activeView = {"preview"}
    /\ state = [html |-> <<>>, css |-> <<>>, js |-> <<>>,
                activeTab |-> "html", activeOutput |-> "preview"]
    /\ storage = NoItem
    /\ runs = 1
    /\ cleared = 0
    /\ ignored = FALSE
    /\ outcome = "none"
    /\ saveFailed = FALSE
    /\ fmt = NoFormat
    /\ activeFilters = Levels
    /\ sandbox = NoHandler
    /\ autoRun = FALSE
    /\ timers = 0
    /\ hostThrew = FALSE
    /\ currentTab = "html"
    /\ shownEditors = {"html"}
    /\ activeTabs = {"html"}
    /\ activeOutputTabs = {"preview"}
    /\ debounced = NewDebounced

\* runner.ts:29-69: docContent is assigned
BuildDocument ==
    /\ pc = "BuildingLoading"
    /\ "docContent" \notin DOMAIN bundle
    /\ bundle' = [html |-> bundle.html, css |-> bundle.css, js |-> bundle.js,
                  docContent |-> Build(bundle)]
    /\ UNCHANGED <<editors, pc, loading, errorVisible, console, msgQueue, src,
                   navigating, loadEvents, displayed, listeners, created,
                   revokeCount, loaded, currentOutput, activeView, state,
                   storage, runs, cleared, ignored, outcome, saveFailed,
                   fmt, activeFilters, sandbox, autoRun, timers, hostThrew,
                   currentTab, shownEditors, activeTabs, activeOutputTabs, debounced>>

BuilderSpec == BuilderInit /\ [][BuildDocument]_vars

\* The full system is the product of three nearly independent parts.  Each
\* of the specifications below keeps runCode whole and leaves out handlers
\* that write none of the variables its properties read.

\* The lifecycle of the blob URLs: the runs, the JS buffer that decides
\* whether a run creates a URL, and the preview's load events.
\* auto-run: the changes, the timers and the runs they start
AutoRunNext ==
    \/ \E which \in {"html", "css", "js"} : \E text \in EditorTexts(which) : Edit(which, text)
    \/ toggleAutoRun
    \/ AutoRunFire
    \/ ValidatePass
    \/ ValidateFail
    \/ FailedReturn
    \/ \E previewOk \in BOOLEAN, fault \in Faults, ok1 \in BOOLEAN, ok2 \in BOOLEAN :
          BuildAndLoad(previewOk, fault, ok1, ok2)
    \/ CompleteLoad

AutoRunSpec == Init /\ [][AutoRunNext]_vars

LifecycleNext ==
    \/ \E text \in JsTexts : Edit("js", text)
    \/ RunStart
    \/ ValidatePass
    \/ ValidateFail
    \/ FailedReturn
    \/ \E previewOk \in BOOLEAN, fault \in Faults, ok1 \in BOOLEAN, ok2 \in BOOLEAN :
          BuildAndLoad(previewOk, fault, ok1, ok2)
    \/ CompleteLoad
    \/ \E u \in loadEvents : FireLoad(u)
    \/ ErrorTimeout

LifecycleSpec == Init /\ [][LifecycleNext]_vars

\* runCode returns once called; the preview finishes loading its source;
\* queued load events are dispatched.
LifecycleFairness ==
    /\ WF_vars(ValidatePass)
    /\ WF_vars(ValidateFail)
    /\ WF_vars(FailedReturn)
    /\ WF_vars(\E previewOk \in BOOLEAN, fault \in Faults, ok1 \in BOOLEAN, ok2 \in BOOLEAN :
                  BuildAndLoad(previewOk, fault, ok1, ok2))
    /\ WF_vars(CompleteLoad)
    /\ WF_vars(\E u \in loadEvents : FireLoad(u))

FairLifecycleSpec == LifecycleSpec /\ LifecycleFairness

\* The console view: the runs, the JS buffer, the displayed document and
\* the messages it posts.
ConsoleNext ==
    \/ \E text \in JsTexts : Edit("js", text)
    \/ RunStart
    \/ ValidatePass
    \/ ValidateFail
    \/ FailedReturn
    \/ \E previewOk \in BOOLEAN, fault \in Faults, ok1 \in BOOLEAN, ok2 \in BOOLEAN :
          BuildAndLoad(previewOk, fault, ok1, ok2)
    \/ CompleteLoad
    \/ \E level \in EmitLevels : SandboxEmit(level)
    \/ SandboxPostOther
    \/ DeliverMessage

ConsoleSpec == Init /\ [][ConsoleNext]_vars

\* The console view with its filters: the console's steps and the filter
\* buttons.
FilterNext ==
    \/ \E text \in JsTexts : Edit("js", text)
    \/ RunStart
    \/ ValidatePass
    \/ ValidateFail
    \/ FailedReturn
    \/ \E previewOk \in BOOLEAN, fault \in Faults, ok1 \in BOOLEAN, ok2 \in BOOLEAN :
          BuildAndLoad(previewOk, fault, ok1, ok2)
    \/ CompleteLoad
    \/ \E level \in EmitLevels : SandboxEmit(level)
    \/ SandboxPostOther
    \/ DeliverMessage
    \/ \E type \in ToggleLevels, ok \in BOOLEAN : toggleLogFilter(type, ok)

FilterSpec == Init /\ [][FilterNext]_vars

\* The host page outside the console: the three editors, the runs, the
\* preview, the output tabs, the saved state and the error banner.
PageNext ==
    \/ \E which \in {"html", "css", "js"} : \E text \in EditorTexts(which) : Edit(which, text)
    \/ RunStart
    \/ ValidatePass
    \/ ValidateFail
    \/ FailedReturn
    \/ \E previewOk \in BOOLEAN, fault \in Faults, ok1 \in BOOLEAN, ok2 \in BOOLEAN :
          BuildAndLoad(previewOk, fault, ok1, ok2)
    \/ CompleteLoad
    \/ \E output \in Outputs, ok \in BOOLEAN : switchOutput(output, ok)
    \/ ErrorTimeout

PageSpec == Init /\ [][PageNext]_vars

----------------------------------------------------------------------------
(* Properties *)

Urls == DOMAIN revokeCount

Revoked(u) == revokeCount[u] > 0

Live == {u \in created : ~Revoked(u)}

\* C1: revokeObjectURL is never invoked a second time for the same blob
\* URL, over any sequence of runs and load events.
C1_RevokedAtMostOnce == \A u \in Urls : revokeCount[u] <= 1

\* C2: every blob URL a run created is eventually revoked, also on the
\* path where the preview element is missing or a later step throws.
C2_CreatedUrlEventuallyRevoked == \A u \in 1..MaxRuns : (u \in created) ~> Revoked(u)

\* C3: at most one created blob URL is unrevoked at any time.
C3_AtMostOneLiveUrl == Cardinality(Live) <= 1

\* C4: a blob URL is revoked only once the load event of the preview's
\* load of that same URL has been dispatched.
C4_RevokedOnlyAfterOwnLoad == \A u \in Urls : Revoked(u) => u \in loaded

\* C5: once the pre-check has run on a non-blank JS buffer that does not
\* parse, the run is on its syntax-error path, the console view holds
\* exactly one entry, of level error with "SyntaxError" in its text, and
\* the run has created no blob URL and assigned no preview source.
C5_SyntaxErrorReported ==
    (/\ pc \in {"BuildingLoading", "Failed"}
     /\ Trim(bundle.js) # <<>>
     /\ NewFunctionThrows(bundle.js))
    => /\ pc = "Failed"
       /\ Len(console) = 1
       /\ console[1].level = "error"
       /\ \E i \in 1..Len(console[1].text) : console[1].text[i] = "SyntaxError"
       /\ runs \notin created
       /\ src # runs
       /\ navigating # runs

\* a run is on its syntax-error path although an earlier run's document is
\* in the preview
C5_Witness == pc = "Failed" /\ src # 0 /\ displayed = src

\* the steps of a run whose pre-check fails: the start, the failed
\* pre-check and the return
OnSyntaxErrorPath ==
    \/ pc = "Idle" /\ pc' = "Validating" /\ SyntaxCheckFails(bundle'.js)
    \/ pc = "Validating" /\ pc' = "Failed"
    \/ pc = "Failed"

\* C6: every step of a run on the syntax-error path leaves the editors,
\* the preview's source and document, the blob URLs, the output view, the
\* saved state, the error banner and the posted messages as they are.
C6_SyntaxErrorFrame ==
    [][OnSyntaxErrorPath =>
         UNCHANGED <<editors, src, navigating, displayed, loadEvents, listeners,
                     created, revokeCount, currentOutput, activeView, state,
                     storage, errorVisible, msgQueue,
                   fmt, activeFilters, sandbox, autoRun, timers, hostThrew,
                   currentTab, shownEditors, activeTabs, activeOutputTabs, debounced>>]_vars

\* a run is on its syntax-error path while the console tab is shown, a
\* preview is displayed and the saved JS differs from the buffer
C6_Witness ==
    /\ pc = "Failed"
    /\ activeView = {"console"}
    /\ displayed # 0
    /\ storage # NoItem
    /\ state.js # editors.js

\* C7: whenever no run is in progress the loading indicator is hidden.
C7_LoadingClearedAfterRun == pc = "Idle" => ~loading

\* a run has ended by the exception for the missing preview element: it
\* created a URL, assigned nothing and showed the banner
C7_Witness ==
    /\ pc = "Idle"
    /\ runs \in created
    /\ src # runs
    /\ errorVisible
    /\ ~loading

\* the transitions of the orchestrator's state machine
RunEdges ==
    { <<"Idle", "Validating">>,
      <<"Validating", "BuildingLoading">>,
      <<"Validating", "Failed">>,
      <<"BuildingLoading", "Idle">>,
      <<"Failed", "Idle">> }

\* C8: a run moves only along Idle -> Validating -> Building&Loading ->
\* Idle or Idle -> Validating -> Failed -> Idle, enters Building&Loading
\* only after a passed pre-check and Failed only after a failed one, and
\* every run returns to Idle.
C8_RunPaths ==
    /\ [][pc' # pc =>
            /\ <<pc, pc'>> \in RunEdges
            /\ (pc' = "BuildingLoading" => ~SyntaxCheckFails(bundle.js))
            /\ (pc' = "Failed" => SyntaxCheckFails(bundle.js))]_vars
    /\ [](pc # "Idle" => <>(pc = "Idle"))

\* a run is in Building&Loading after an earlier run that took the other
\* path and created nothing
C8_Witness == pc = "BuildingLoading" /\ runs > 1 /\ (runs - 1) \notin created

\* C9: every entry in the console view was appended after the latest run
\* started: a run leaves no earlier entry in the view.
C9_ConsoleClearedByRun == \A i \in 1..Len(console) : console[i].epoch = runs

\* a run has removed entries from the view, passed the pre-check and
\* returned, and nothing has been appended since
C9_Witness ==
    /\ pc = "Idle"
    /\ cleared > 0
    /\ console = <<>>

\* C10: the relay appends every dispatched console message to the view,
\* whichever run's document posted it.
C10_RelayIgnoresRun ==
    [][(msgQueue # <<>> /\ msgQueue' = Tail(msgQueue) /\ Head(msgQueue).type = "console") =>
          LET m == Head(msgQueue)
          IN console' = Append(console, [level |-> m.level, text |-> EntryText(m.data),
                                          origin |-> m.origin, epoch |-> runs,
                   filtered |-> m.level \notin activeFilters])]_vars

\* the view, cleared by the run that assigned the current preview source,
\* shows an entry posted by an earlier run's document
C10_Witness ==
    \E i \in 1..Len(console) :
        /\ console[i].origin # 0
        /\ console[i].origin < src
        /\ console[i].epoch >= src

\* the host dispatches the oldest posted message to the listener
Dispatching == msgQueue # <<>> /\ msgQueue' = Tail(msgQueue)

\* s2 is s1 with one element added at the end
ExtendsByOne(s1, s2) == Len(s2) = Len(s1) + 1 /\ SubSeq(s2, 1, Len(s1)) = s1

\* C11: posted messages leave the channel oldest first, and the view
\* changes only by a run's clear or by one entry added at the end; an
\* entry made from a message is made from the oldest posted message.
C11_RelayKeepsOrder ==
    [][/\ msgQueue' # msgQueue => Dispatching \/ ExtendsByOne(msgQueue, msgQueue')
       /\ console' # console =>
             \/ pc = "Idle" /\ pc' = "Validating" /\ console' = <<>>
             \/ /\ ExtendsByOne(console, console')
                /\ LET e == console'[Len(console')]
                   IN e.origin # 0 =>
                        /\ Dispatching
                        /\ e.level = Head(msgQueue).level
                        /\ e.text = EntryText(Head(msgQueue).data)
                        /\ e.origin = Head(msgQueue).origin]_vars

\* the view shows two entries made from sandbox messages of different
\* levels, the error first
C11_Witness ==
    /\ Len(console) = 2
    /\ console[1].origin # 0 /\ console[1].level = "error"
    /\ console[2].origin # 0 /\ console[2].level = "log"

C13_OtherTypesIgnored ==
    [][(Dispatching /\ Head(msgQueue).type # "console") =>
         UNCHANGED <<editors, pc, bundle, loading, errorVisible, console, src,
                     navigating, loadEvents, displayed, listeners, created,
                     revokeCount, loaded, currentOutput, activeView, state,
                     storage, runs, cleared,
                   fmt, activeFilters, sandbox, autoRun, timers, hostThrew,
                   currentTab, shownEditors, activeTabs, activeOutputTabs, debounced>>]_vars

\* the listener has ignored a message while the view held an entry, and
\* the entry is still there
C13_Witness == ignored /\ console # <<>> /\ msgQueue = <<>>

\* the builder has assigned docContent
Built == "docContent" \in DOMAIN bundle

\* number of occurrences of the token t in s
Count(s, t) == Cardinality({i \in 1..Len(s) : s[i] = t})

\* s ends with the tokens of t
EndsWith(s, t) == Len(t) <= Len(s) /\ SubSeq(s, Len(s) - Len(t) + 1, Len(s)) = t

\* C14: for a bundle whose html is not a full document, the built
\* document has one <style> element if css is not blank and none if it is,
\* and ends with one <script> element holding exactly js.
C14_FragmentStyleAndScript ==
    (Built /\ ~isFullHtml(bundle.html)) =>
        /\ Count(bundle.docContent, "<style>") = (IF Trim(bundle.css) # <<>> THEN 1 ELSE 0)
        /\ EndsWith(bundle.docContent, <<"<script>">> \o bundle.js \o <<"</script></html>">>)
        /\ Count(bundle.docContent, "<script>") = 2 + Count(bundle.html, "<script>")

\* C15: in either mode, for a blank JS buffer the only script elements of
\* the built document are the shim and those of the user's HTML.
C15_NoScriptForBlankJs ==
    (Built /\ Trim(bundle.js) = <<>>) =>
        Count(bundle.docContent, "<script>") = 1 + Count(bundle.html, "<script>")

\* C16: for a bundle whose html is a full document, the first child of
\* <head> in the built document is the shim's script element.
C16_ShimFirstInHead ==
    (Built /\ isFullHtml(bundle.html)) =>
        LET h == IndexOf(bundle.docContent, "<head>")
        IN /\ h # 0
           /\ h + 3 <= Len(bundle.docContent)
           /\ SubSeq(bundle.docContent, h + 1, h + 3) = <<"<script>", consoleInterceptor, "</script>">>

\* the text holds the start tag of the html element or a doctype
\* declaration, in either case, at some position
HasFullDocMarker(html) ==
    \E i \in 1..Len(html) : html[i] \in HtmlOpeningTags \cup DoctypeDeclarations

\* the document was assembled from the parsed user document
UsedFullMode == bundle.docContent[1] \in {"<html>", "<html lang>"}

\* the document was assembled from the fragment template
UsedFragmentMode == bundle.docContent[1] = FragmentPrologue

\* C17: the built document is the parsed user document when the html
\* text holds an html start tag or a doctype declaration, in either case
\* and at any position, and the fragment template otherwise.
C17_FullModeIffMarker ==
    Built => IF HasFullDocMarker(bundle.html) THEN UsedFullMode ELSE UsedFragmentMode

\* a document was assembled in full mode from a text whose marker is an
\* upper-case start tag that is not at the start of the text
C17_Witness ==
    /\ Built
    /\ UsedFullMode
    /\ Len(bundle.html) > 1
    /\ bundle.html[1] = "<!--c-->"
    /\ bundle.html[2] = "<HTML lang>"

\* C19: the step of a run after the pre-check ends the call by a return,
\* never by an exception; when a step of it threw, the error banner is
\* shown and the console view is left as it is.
C19_ExceptionsBecomeBanner ==
    [][pc = "BuildingLoading" =>
         /\ pc' = "Idle"
         /\ outcome' \in {"returned", "caught"}
         /\ outcome' = "caught" => (errorVisible' /\ console' = console)]_vars

\* a run assigned the preview's source, a later step of it threw, and the
\* call returned with the banner shown and the indicator hidden
C19_Witness ==
    /\ pc = "Idle"
    /\ outcome = "caught"
    /\ src = runs
    /\ errorVisible
    /\ ~loading
    /\ console = <<>>

\* C20: a run that finds the preview element missing or not an iframe,
\* after creating its blob URL, ends with the exception reaching the
\* caller.
C20_PreviewMissingIsFatal ==
    [][(pc = "BuildingLoading" /\ runs \in created' /\ src' # runs) =>
         outcome' = "thrown"]_vars

\* C21: a run that passes the pre-check and in which no step throws and
\* no save fails ends with the preview's source its new blob URL, the
\* preview view shown, and the saved html, css and js those it read.
C21_SuccessfulRunPersistsBuffers ==
    [][(pc = "BuildingLoading" /\ outcome' = "returned" /\ ~saveFailed') =>
         /\ src' = runs
         /\ runs \in created'
         /\ activeView' = {"preview"}
         /\ storage' # NoItem
         /\ storage'.html = bundle.html
         /\ storage'.css = bundle.css
         /\ storage'.js = bundle.js]_vars

\* C22: a run in which a save met a storage failure still returns, with
\* the banner shown, the new blob URL assigned to the preview, the preview
\* view shown and the indicator hidden; a failed save of a tab switch
\* shows the banner and the tab is switched.
C22_StorageFailureNonFatal ==
    /\ [][(pc = "BuildingLoading" /\ outcome' = "returned" /\ saveFailed') =>
            /\ pc' = "Idle"
            /\ errorVisible'
            /\ src' = runs
            /\ activeView' = {"preview"}
            /\ ~loading']_vars
    /\ [][(pc = "Idle" /\ pc' = "Idle" /\ saveFailed' /\ storage' = storage
           /\ currentOutput' # currentOutput) =>
            /\ errorVisible'
            /\ activeView' = {currentOutput'}]_vars

\* a run has returned after a failed save: nothing is stored, the banner
\* is shown, the preview has the run's URL
C22_Witness ==
    /\ pc = "Idle"
    /\ outcome = "returned"
    /\ saveFailed
    /\ storage = NoItem
    /\ errorVisible
    /\ src = runs
    /\ activeView = {"preview"}
    /\ ~loading

\* C23: while formatCode waits for the formatter it replaces no buffer
\* and saves nothing; the step in which a formatting fails shows the
\* banner and leaves the three buffers and the saved state as they are.
C23_FormatFailureKeepsBuffers ==
    [][(Formatting /\ fmt' # fmt) =>
         \/ /\ fmt'.step = "done"
            /\ ~PrettierThrows("js", fmt.input)
         \/ /\ editors' = editors
            /\ state' = state
            /\ storage' = storage
            /\ (PrettierThrows(fmt.step, fmt.input) => (errorVisible' /\ fmt'.step = "failed"))]_vars

\* formatCode has failed on the JS buffer after the HTML buffer's
\* formatting succeeded: the HTML buffer still has its trailing blank
C23_Witness ==
    /\ fmt.step = "failed"
    /\ errorVisible
    /\ editors.html = <<"<p>", "hi", "</p>", " ">>
    /\ editors.js = <<"function", "(">>
    /\ storage = NoItem

\* C24: every entry of the console view is hidden exactly when its level
\* is not among the active levels.
C24_HiddenIffLevelInactive ==
    \A i \in 1..Len(console) : console[i].filtered <=> console[i].level \notin activeFilters

\* the argument of the relayed console call and its rendered text
RenderedHeap == Head(msgQueue).data[1].heap

Rendered == msgQueue = <<>> /\ Len(console) = 1 /\ console[1].origin = 1

\* the text of an object whose properties are the primitive or the object
\* itself: the back-references written as [Circular]
SelfReferenceText(values) ==
    [i \in 1..(2 * Len(values)) |->
        IF i % 2 = 1 THEN "key:"
        ELSE IF values[i \div 2] = 1 THEN "[Circular]" ELSE "x"]

\* C25: the render of an object that has one property referring to the
\* object itself, and otherwise primitives, is the object's node with
\* [Circular] once, in the place of that property's value.
C25_SelfReferenceRendersCircular ==
    [][(msgQueue # <<>> /\ msgQueue' = <<>>
        /\ Cardinality({i \in 1..Len(RenderedHeap[1]) : RenderedHeap[1][i] = 1}) = 1
        /\ \A i \in 1..Len(RenderedHeap[1]) : RenderedHeap[1][i] \in {0, 1}) =>
         /\ Len(console') = 1
         /\ console'[1].text = <<"{...}", "<div>">> \o SelfReferenceText(RenderedHeap[1]) \o <<"</div>">>
         /\ Cardinality({i \in 1..Len(console'[1].text) : console'[1].text[i] = "[Circular]"}) = 1]_vars

\* the view shows an object with a primitive property followed by a
\* property that refers to the object itself
C25_Witness ==
    /\ Rendered
    /\ console[1].text = <<"{...}", "<div>", "key:", "x", "key:", "[Circular]", "</div>">>

\* the heap is a chain: each object's one property is the next object, down
\* to object n
RECURSIVE IsChain(_, _)
IsChain(heap, n) ==
    IF n = 1 THEN TRUE ELSE heap[n - 1] = <<n>> /\ IsChain(heap, n - 1)

\* the text of a chain of n nodes that ends with the text t
RECURSIVE ChainText(_, _)
ChainText(n, t) ==
    IF n = 0 THEN t ELSE <<"{...}", "<div>", "key:">> \o ChainText(n - 1, t) \o <<"</div>">>

\* C26: the render of a chain of at least five distinct nested objects is
\* four nested nodes, for the levels 0 to 3, and the text [...] for the
\* object at level 4; nothing of the objects below is rendered.
C26_DepthGuardAtLevelFour ==
    [][(msgQueue # <<>> /\ msgQueue' = <<>> /\ IsChain(RenderedHeap, MaxLevel + 2)) =>
         /\ Len(console') = 1
         /\ console'[1].text = ChainText(MaxLevel + 1, <<"[...]">>)]_vars

\* the view shows four nested nodes and [...] in the innermost
C26_Witness ==
    /\ Rendered
    /\ console[1].text = ChainText(MaxLevel + 1, <<"[...]">>)

\* C27: every console call in the sandbox invokes the original method
\* exactly once and posts exactly one message, and a failure to post (an
\* argument that cannot be cloned) does not prevent the original call.
C27_CallRunsOriginalAndPostsOnce ==
    sandbox.handler = "console" => sandbox.originals = 1 /\ sandbox.posts = 1

\* the host state an error in the sandbox must leave alone
HostFrame == <<editors, pc, bundle, loading, errorVisible, src, navigating,
               loadEvents, displayed, listeners, created, revokeCount, loaded,
               currentOutput, activeView, state, storage, runs, cleared,
               activeFilters, fmt, autoRun, timers, hostThrew, currentTab,
               shownEditors, activeTabs, activeOutputTabs, debounced>>

C29_OnePendingAutoRun ==
    [][ /\ timers' <= 1
        /\ (timers' < timers) => timers' = 0 ]_vars

\* C30: a run whose assignment comes while the previous run's document is
\* still loading starts a new cycle: the preview source and the pending
\* navigation become its URL, an earlier URL is never assigned again, only
\* the document of the current source gets displayed, and that document is
\* finally displayed.
C30_SecondRunSupersedesFirst ==
    /\ [][ (pc = "BuildingLoading" /\ navigating # 0 /\ runs \in listeners') =>
              (src' = runs /\ navigating' = runs) ]_vars
    /\ [][ src' # src => (src' > src /\ src' \notin created) ]_vars
    /\ [][ displayed' # displayed => displayed' = src ]_vars
    /\ (navigating # 0) ~> (navigating = 0 /\ displayed = src)

\* the second run was assigned before the first run's document finished
\* loading, and the second run's document is displayed
C30_Witness ==
    /\ runs = 2
    /\ 1 \in listeners
    /\ 1 \notin loaded \cup loadEvents
    /\ src = 2
    /\ displayed = 2

\* C31: a malformed inbound message (type "console" without a data array,
\* a null payload, a payload that is not an object) is handled without an
\* exception in the host and without an entry appended.
C31_MalformedMessageIgnored ==
    [][ (/\ msgQueue # <<>>
         /\ msgQueue' = Tail(msgQueue)
         /\ Head(msgQueue) \in MalformedMessages(Head(msgQueue).origin)) =>
            (~hostThrew' /\ console' = console) ]_vars

\* C32: after a switch to a valid editor tab or output view whose save
\* succeeded, the saved state records the current tab and the current
\* output; loadState on a saved state with valid names re-selects them.
C32_TabAndOutputRoundTrip ==
    /\ [][ (/\ pc = "Idle" /\ pc' = "Idle"
            /\ (currentTab' # currentTab \/ currentOutput' # currentOutput)
            /\ currentTab' \in EditorTabs
            /\ currentOutput' \in Outputs
            /\ ~saveFailed') =>
              /\ storage'.activeTab = currentTab'
              /\ storage'.activeOutput = currentOutput' ]_vars
    /\ [][ (/\ pc = "Startup"
            /\ DOMAIN storage = {"html", "css", "js", "activeTab", "activeOutput"}
            /\ storage.activeTab \in EditorTabs
            /\ storage.activeOutput \in Outputs) =>
              /\ currentTab' = storage.activeTab
              /\ currentOutput' = storage.activeOutput ]_vars

\* C35: exactly one output view and exactly one output tab are active,
\* both the one the recorded current output names; a call with an unknown
\* name changes none of the three, so the record stays a known name.
C35_OneActiveOutput ==
    /\ currentOutput \in Outputs
    /\ activeView = {currentOutput}
    /\ activeOutputTabs = {currentOutput}

\* C36: exactly one editor container is displayed and exactly one editor
\* tab is marked active, both for the recorded current tab; a call with
\* an unknown name leaves the displayed editor and the record as they
\* were, so the record stays a known name.
C36_OneActiveEditorTab ==
    /\ currentTab \in EditorTabs
    /\ shownEditors = {currentTab}
    /\ activeTabs = {currentTab}

\* C37: loadState selects a stored tab or output only if it is one of the
\* valid names and keeps the current value otherwise, so the current tab
\* and the current output stay valid.
C37_LoadStateAppliesOnlyWellFormed ==
    [][ pc = "Startup" =>
          /\ currentTab' \in EditorTabs
          /\ currentOutput' \in Outputs
          /\ currentTab' # currentTab =>
                /\ "activeTab" \in DOMAIN storage
                /\ storage.activeTab \in EditorTabs
                /\ currentTab' = storage.activeTab
          /\ currentOutput' # currentOutput =>
                /\ "activeOutput" \in DOMAIN storage
                /\ storage.activeOutput \in Outputs
                /\ currentOutput' = storage.activeOutput ]_vars

\* C33: while auto-run is off no run is started by an editor change:
\* a change schedules no timer, and no timer that was pending when
\* auto-run was toggled off starts a run.
C33_NoAutoRunWhenOff ==
    [][ ~autoRun =>
          /\ editors' # editors => timers' = timers
          /\ ~(timers' < timers /\ runs' > runs) ]_vars

\* C34: the text formatCode writes into a buffer is the formatted form of
\* the buffer's content at the moment of writing, so no edit made while
\* it waited for the formatter is discarded.
C34_FormatKeepsInterveningEdits ==
    [][ (fmt.step = "js" /\ fmt'.step = "done") =>
          \A which \in {"html", "css", "js"} :
              editors'[which] = Prettier(editors[which]) ]_vars

\* C38: for one debounced function at most one timer is pending, the one
\* of the latest call, because each call cancels the timer of the call
\* before; every burst of calls ends in exactly one invocation of f, with
\* the arguments of the burst's last call.
C38_DebounceCoalescesBurst ==
    /\ [](/\ Cardinality(debounced.timers) <= 1
          /\ \A t \in debounced.timers :
                /\ t.id = debounced.timeout
                /\ t.args = debounced.bursts[Len(debounced.bursts)]
          /\ Len(debounced.invoked) + Cardinality(debounced.timers) = Len(debounced.bursts)
          /\ debounced.invoked = SubSeq(debounced.bursts, 1, Len(debounced.invoked)))
    /\ [][ \A t \in debounced.timers :
              t \notin debounced'.timers =>
                 \/ debounced'.calls = debounced.calls + 1
                 \/ debounced'.invoked = Append(debounced.invoked, t.args) ]_vars
    /\ (debounced.timers # {}) ~> (debounced.timers = {} /\ debounced.invoked = debounced.bursts)

\* two bursts, the first of two calls with different arguments: f was
\* invoked twice, each time with the arguments of the burst's last call
C38_Witness ==
    /\ debounced.calls = 3
    /\ debounced.timers = {}
    /\ debounced.invoked = <<"b", "a">>
    /\ debounced.bursts = <<"b", "a">>
====
